---------------------------- MODULE Spec2Model ----------------------------
(***************************************************************************)
(* neural2d utility scripts:                                               *)
(*   - tests/images/mnist/makeTrainDataForNeural2d.py (Python 3): the      *)
(*     MNIST extractor makeDataSet, run by the script's __main__ block;    *)
(*   - gen/gen2.py (Python 2): the sample generator.                       *)
(* The two scripts share nothing; each has its own specification (Spec for *)
(* the extractor, SpecGen for the generator), the other script being idle. *)
(***************************************************************************)
EXTENDS Integers, Sequences, FiniteSets

VARIABLES
    \* ---- the extractor's environment: the two input files and the disk
    imageFile,   \* image file: big-endian header fields and the image records
    labelFile,   \* label file: big-endian item count and the label bytes
    dirExists,   \* does destDir exist
    bmps,        \* the .bmp files on disk: file name -> saved image
    config,      \* the manifest file at configFile: [exists, lines]
    \* ---- the extractor process (locals of makeDataSet)
    pc, numLabels, numImages, height, width, indexNum,
    ipos,        \* ifile: image records consumed from offset 0x10
    lpos,        \* lfile: label bytes consumed from offset 8
    targetVals,
    exitCode,
    \* ---- history of the extractor's runs
    written,     \* the file names im.save() was called with in this run, in order
    run,         \* number of the current run of the script (1, 2, ...)
    before,      \* the disk when the current run started, and how the previous run ended
    \* ---- the generator process (gen2.py)
    argv, samples, i, out, gpc

vars == <<imageFile, labelFile, dirExists, bmps, config, pc, numLabels, numImages,
          height, width, indexNum, ipos, lpos, targetVals, exitCode, written, run,
          before, argv, samples, i, out, gpc>>

extractorVars == <<imageFile, labelFile, dirExists, bmps, config, pc, numLabels,
                   numImages, height, width, indexNum, ipos, lpos, targetVals,
                   exitCode, written, run, before>>

generatorVars == <<argv, samples, i, out, gpc>>

---------------------------------------------------------------------------
\* Bounds of the model.

\* Largest item count a header declares, and longest data section of a file.
MaxItems == 2

\* How many times in a row the extractor script is run on the same files.
MaxRuns == 2

\* Largest integer given to the generator on the command line.
MaxSamples == 21

---------------------------------------------------------------------------
\* Constants of makeTrainDataForNeural2d.py.

falseVal == -1
trueVal == 1
ExpectedDim == 28
NumTargets == 10

DEST_DIR_TRAIN == "train-data"
Prefix == ""
ConfigFile == "inputData-mnist.txt"

\* A local that has not been assigned yet.
Unset == -1

\* Pixel intensities of the (uniformly grey) image records of the model.
Pixels == {0, 255}

\* Label bytes of the model: two digits and one byte outside 0..9.
LabelBytes == {3, 7, 10}

\* A 32-bit header field as its four bytes, most significant first.
CountFields == {<<0, 0, 0, n>> : n \in 0..MaxItems}
HeightFields == {<<0, 0, 0, 28>>, <<0, 0, 1, 28>>}
WidthFields == {<<0, 0, 0, 28>>, <<0, 0, 0, 29>>}

SeqsUpTo(S, n) == UNION {[1..m -> S] : m \in 0..n}

ImageFiles ==
    [numItems : CountFields, height : HeightFields, width : WidthFields,
     records : SeqsUpTo(Pixels, MaxItems)]

LabelFiles == [numItems : CountFields, labels : SeqsUpTo(LabelBytes, MaxItems)]

---------------------------------------------------------------------------
\* Pure helpers of makeDataSet.

\* ord(f.read(1)) << 24, += ... << 16, += ... << 8, += ...
ReadBE32(b) == b[1] * 16777216 + b[2] * 65536 + b[3] * 256 + b[4]

\* "%s/%s%d.bmp" % (destDir, prefix, indexNum)
ImageFilename(destDir, prefix, n) == [dir |-> destDir, prefix |-> prefix, index |-> n]

\* Image.frombytes("L", (width, height), bytes).convert("RGB")
ConvertRGB(w, h, p) == [mode |-> "RGB", size |-> <<w, h>>, pixel |-> <<p, p, p>>]

\* Mutant of FreshTargets: the list of the previous record is reused.
StaleTargets ==
    IF targetVals = <<>> THEN [p \in 1..NumTargets |-> falseVal] ELSE targetVals

\* targetVals = [falseVal] * 10
FreshTargets == [p \in 1..NumTargets |-> falseVal]

\* targetVals[ord(label)] = trueVal   (Python indexes from 0)
SetTarget(t, label) == [t EXCEPT ![label + 1] = trueVal]

\* Mutant of InRange: index 10 is taken to be in range.
InRangeOffByOne(label) == label <= NumTargets

\* ord(label) indexes a list of 10: 0..9 is in range (a byte is never negative)
InRange(label) == label < NumTargets

\* Mutant of CountsDiffer: the image count is compared with itself.
CountsDifferSelf(nImages, nLabels) == nImages # nImages

\* if numImages != numLabels
CountsDiffer(nImages, nLabels) == nImages # nLabels

\* if height != 28 or width != 28
DimsWrong(h, w) == h # ExpectedDim \/ w # ExpectedDim

\* Mutant of NextCount: the counter is not decremented.
NextCountStuck(n) == n

\* numImages = numImages - 1
NextCount(n) == n - 1

\* Mutant of NextIndex: the index is not advanced.
NextIndexStuck(n) == n

\* indexNum = indexNum + 1
NextIndex(n) == n + 1

\* "images/mnist/%s %d ... %d\n" % (imageFilename, targetVals[0], ..., targetVals[9])
ConfigLine(name, t) == [path |-> <<"images/mnist", name>>, targets |-> t]

\* Mutant of OpenForWrite: the file is opened in append mode.
OpenForAppend(f) == [exists |-> TRUE, lines |-> f.lines]

\* open(configFile, "wt"): the file is created, or truncated when it exists
OpenForWrite(f) == [exists |-> TRUE, lines |-> <<>>]

\* im.save(name): the file is created or replaced
SaveFile(files, name, im) ==
    [f \in DOMAIN files \cup {name} |-> IF f = name THEN im ELSE files[f]]

\* The working directory before the first run: never used, or left by an earlier
\* complete run over a one-record data set (a white image labelled 7).
FreshDisk ==
    [dirExists |-> FALSE, bmps |-> <<>>, config |-> [exists |-> FALSE, lines |-> <<>>],
     pc |-> "none"]

UsedDisk ==
    LET name == ImageFilename(DEST_DIR_TRAIN, Prefix, 0)
    IN [dirExists |-> TRUE,
        bmps |-> SaveFile(<<>>, name, ConvertRGB(ExpectedDim, ExpectedDim, 255)),
        config |-> [exists |-> TRUE,
                    lines |-> <<ConfigLine(name,
                        [p \in 1..NumTargets |-> IF p = 8 THEN trueVal ELSE falseVal])>>],
        pc |-> "earlier"]

Terminal == {"done", "exit_count", "exit_dims", "ValueError", "TypeError", "IndexError"}

---------------------------------------------------------------------------
\* The extractor.

IdleGenerator ==
    /\ argv = <<>>
    /\ samples = Unset
    /\ i = 0
    /\ out = <<>>
    /\ gpc = "idle"

Locals0 ==
    /\ pc = "start"
    /\ numLabels = Unset
    /\ numImages = Unset
    /\ height = Unset
    /\ width = Unset
    /\ indexNum = Unset
    /\ ipos = 0
    /\ lpos = 0
    /\ targetVals = <<>>
    /\ exitCode = Unset
    /\ written = <<>>

\* A working directory holding the two downloaded files, the script about to run.
Init ==
    /\ imageFile \in ImageFiles
    /\ labelFile \in LabelFiles
    /\ before \in {FreshDisk, UsedDisk}
    /\ dirExists = before.dirExists
    /\ bmps = before.bmps
    /\ config = before.config
    /\ Locals0
    /\ run = 1
    /\ IdleGenerator

\* Lines 53-58: create destDir when absent, open the three files.
OpenFiles ==
    /\ pc = "start"
    /\ dirExists' = (IF ~dirExists THEN TRUE ELSE dirExists)
    /\ config' = OpenForWrite(config)
    /\ pc' = "counts"
    /\ UNCHANGED <<imageFile, labelFile, bmps, numLabels, numImages, height, width,
                   indexNum, ipos, lpos, targetVals, exitCode, written, run, before>>
    /\ UNCHANGED generatorVars

\* Lines 62-79: read both item counts; exit(1) when they differ.
ReadCounts ==
    /\ pc = "counts"
    /\ numLabels' = ReadBE32(labelFile.numItems)
    /\ numImages' = ReadBE32(imageFile.numItems)
    /\ IF CountsDiffer(numImages', numLabels')
         THEN pc' = "exit_count" /\ exitCode' = 1
         ELSE pc' = "dims" /\ exitCode' = exitCode
    /\ UNCHANGED <<imageFile, labelFile, dirExists, bmps, config, height, width,
                   indexNum, ipos, lpos, targetVals, written, run, before>>
    /\ UNCHANGED generatorVars

\* Lines 83-100: read height and width; exit(1) unless both are 28.
ReadDims ==
    /\ pc = "dims"
    /\ height' = ReadBE32(imageFile.height)
    /\ width' = ReadBE32(imageFile.width)
    /\ IF DimsWrong(height', width')
         THEN pc' = "exit_dims" /\ exitCode' = 1
         ELSE pc' = "seek" /\ exitCode' = exitCode
    /\ UNCHANGED <<imageFile, labelFile, dirExists, bmps, config, numLabels, numImages,
                   indexNum, ipos, lpos, targetVals, written, run, before>>
    /\ UNCHANGED generatorVars

\* Lines 104-111: seek both files to the start of their data; indexNum = 0.
SeekData ==
    /\ pc = "seek"
    /\ ipos' = 0
    /\ lpos' = 0
    /\ indexNum' = 0
    /\ pc' = "loop"
    /\ UNCHANGED <<imageFile, labelFile, dirExists, bmps, config, numLabels, numImages,
                   height, width, targetVals, exitCode, written, run, before>>
    /\ UNCHANGED generatorVars

\* Lines 113-119: the loop test, then read one image record and save it as a .bmp.
\* A read past the end of the file returns too few bytes and Image.frombytes raises
\* ValueError.
SaveImage ==
    /\ pc = "loop"
    /\ numImages > 0
    /\ IF ipos < Len(imageFile.records)
         THEN LET name == ImageFilename(DEST_DIR_TRAIN, Prefix, indexNum)
                  im == ConvertRGB(width, height, imageFile.records[ipos + 1])
              IN /\ bmps' = SaveFile(bmps, name, im)
                 /\ written' = Append(written, name)
                 /\ ipos' = ipos + 1
                 /\ pc' = "label"
                 /\ exitCode' = exitCode
         ELSE /\ pc' = "ValueError"
              /\ exitCode' = 1
              /\ UNCHANGED <<bmps, written, ipos>>
    /\ UNCHANGED <<imageFile, labelFile, dirExists, config, numLabels, numImages,
                   height, width, indexNum, lpos, targetVals, run, before>>
    /\ UNCHANGED generatorVars

\* Lines 122-140: read the label byte, build the target vector, write the manifest
\* line, count the record.  ord() of an empty read raises TypeError; a label byte
\* above 9 raises IndexError at the list assignment.  (The manifest's contents are
\* those the file holds once the process has ended and its buffer is flushed.)
WriteLine ==
    /\ pc = "label"
    /\ IF lpos >= Len(labelFile.labels)
         THEN /\ pc' = "TypeError"
              /\ exitCode' = 1
              /\ UNCHANGED <<lpos, targetVals, config, numImages, indexNum>>
         ELSE LET label == labelFile.labels[lpos + 1]
              IN /\ lpos' = lpos + 1
                 /\ IF InRange(label)
                      THEN /\ targetVals' = SetTarget(FreshTargets, label)
                           /\ config' = [config EXCEPT !.lines =
                                 Append(@, ConfigLine(
                                     ImageFilename(DEST_DIR_TRAIN, Prefix, indexNum),
                                     targetVals'))]
                           /\ numImages' = NextCount(numImages)
                           /\ indexNum' = NextIndex(indexNum)
                           /\ pc' = "loop"
                           /\ exitCode' = exitCode
                      ELSE /\ targetVals' = FreshTargets
                           /\ pc' = "IndexError"
                           /\ exitCode' = 1
                           /\ UNCHANGED <<config, numImages, indexNum>>
    /\ UNCHANGED <<imageFile, labelFile, dirExists, bmps, numLabels, height, width,
                   ipos, written, run, before>>
    /\ UNCHANGED generatorVars

\* Lines 113, 143-145: the loop ends, makeDataSet returns, __main__ prints "Done."
\* and the script ends with status 0.
Finish ==
    /\ pc = "loop"
    /\ ~(numImages > 0)
    /\ pc' = "done"
    /\ exitCode' = 0
    /\ UNCHANGED <<imageFile, labelFile, dirExists, bmps, config, numLabels, numImages,
                   height, width, indexNum, ipos, lpos, targetVals, written, run, before>>
    /\ UNCHANGED generatorVars

\* The script is run again in the same directory, on the same two files.
RunAgain ==
    /\ pc \in Terminal
    /\ run < MaxRuns
    /\ run' = run + 1
    /\ before' = [dirExists |-> dirExists, bmps |-> bmps, config |-> config, pc |-> pc]
    /\ pc' = "start"
    /\ numLabels' = Unset
    /\ numImages' = Unset
    /\ height' = Unset
    /\ width' = Unset
    /\ indexNum' = Unset
    /\ ipos' = 0
    /\ lpos' = 0
    /\ targetVals' = <<>>
    /\ exitCode' = Unset
    /\ written' = <<>>
    /\ UNCHANGED <<imageFile, labelFile, dirExists, bmps, config>>
    /\ UNCHANGED generatorVars

Next ==
    \/ OpenFiles
    \/ ReadCounts
    \/ ReadDims
    \/ SeekData
    \/ SaveImage
    \/ WriteLine
    \/ Finish
    \/ RunAgain

Spec == Init /\ [][Next]_vars

---------------------------------------------------------------------------
\* The generator, gen2.py (Python 2: "/" on integers is floor division, and
\* "print out" writes one line).

DefaultSamples == 100
GridSize == 10

\* sys.argv[1:] : nothing, or one argument that is the text of an integer or not.
IntArgs == {[isInt |-> TRUE, val |-> n] : n \in (-1)..MaxSamples}
BadArg == [isInt |-> FALSE, val |-> 0]
ArgLists == {<<>>} \cup {<<a>> : a \in IntArgs \cup {BadArg}}

\* Mutant of Bucket: "/" as true division (Python 3), which equals an integer k
\* only when the division is exact.
BucketTrueDivision(row, n) ==
    IF (GridSize * row) % n = 0 THEN (GridSize * row) \div n ELSE -1

\* i/(samples/10)
Bucket(row, n) == row \div (n \div GridSize)

\* " 1 " if j == k and k == i/(samples/10) else "-1 "
\* ("and" evaluates the division only when j == k, which j = k = 0 makes true in
\* every row.)
Marker(j, k, row, n) == IF j = k /\ k = Bucket(row, n) THEN 1 ELSE -1

\* The tokens of one line after "{ i } ": for j in range(10): for k in range(10)
Grid(row, n) ==
    [t \in 1..(GridSize * GridSize) |->
        Marker((t - 1) \div GridSize, (t - 1) % GridSize, row, n)]

\* The division of line 14 raises ZeroDivisionError when samples/10 is 0.
DivisionFails(n) == n \div GridSize = 0

GenTerminal == {"exit0", "ValueError", "ZeroDivisionError"}

IdleExtractor ==
    /\ imageFile = [numItems |-> <<0, 0, 0, 0>>, height |-> <<0, 0, 0, 28>>,
                    width |-> <<0, 0, 0, 28>>, records |-> <<>>]
    /\ labelFile = [numItems |-> <<0, 0, 0, 0>>, labels |-> <<>>]
    /\ before = FreshDisk
    /\ dirExists = FALSE
    /\ bmps = <<>>
    /\ config = FreshDisk.config
    /\ pc = "idle"
    /\ numLabels = Unset
    /\ numImages = Unset
    /\ height = Unset
    /\ width = Unset
    /\ indexNum = Unset
    /\ ipos = 0
    /\ lpos = 0
    /\ targetVals = <<>>
    /\ exitCode = Unset
    /\ written = <<>>
    /\ run = 1

InitGen ==
    /\ argv \in ArgLists
    /\ samples = Unset
    /\ i = 0
    /\ out = <<>>
    /\ gpc = "start"
    /\ IdleExtractor

\* Lines 7-9: samples = 100, or int(sys.argv[1]) when an argument is given;
\* int() raises ValueError on a text that is no integer.
ParseArgs ==
    /\ gpc = "start"
    /\ IF Len(argv) > 0
         THEN IF argv[1].isInt
                THEN samples' = argv[1].val /\ gpc' = "loop"
                ELSE samples' = DefaultSamples /\ gpc' = "ValueError"
         ELSE samples' = DefaultSamples /\ gpc' = "loop"
    /\ UNCHANGED <<argv, i, out>>
    /\ UNCHANGED extractorVars

\* Lines 10-15, one iteration of "for i in range(samples)": build and print a line.
PrintRow ==
    /\ gpc = "loop"
    /\ i < samples
    /\ IF DivisionFails(samples)
         THEN gpc' = "ZeroDivisionError" /\ UNCHANGED <<i, out>>
         ELSE /\ out' = Append(out, [label |-> i, grid |-> Grid(i, samples)])
              /\ i' = i + 1
              /\ gpc' = gpc
    /\ UNCHANGED <<argv, samples>>
    /\ UNCHANGED extractorVars

\* Line 10: range(samples) is exhausted (at once when samples <= 0); the script ends.
GenFinish ==
    /\ gpc = "loop"
    /\ ~(i < samples)
    /\ gpc' = "exit0"
    /\ UNCHANGED <<argv, samples, i, out>>
    /\ UNCHANGED extractorVars

NextGen ==
    \/ ParseArgs
    \/ PrintRow
    \/ GenFinish

SpecGen == InitGen /\ [][NextGen]_vars

---------------------------------------------------------------------------
\* Properties of the extractor (checked under Spec).

\* What the two headers declare, read off the files.
DeclaredImages == ReadBE32(imageFile.numItems)
DeclaredLabels == ReadBE32(labelFile.numItems)
HeadersMatch == DeclaredImages = DeclaredLabels
DimsOk == ReadBE32(imageFile.height) = 28 /\ ReadBE32(imageFile.width) = 28

\* The expected name of the bitmap with index k, and the expected target vector
\* of label L, spelled out.
BmpName(k) == [dir |-> "train-data", prefix |-> "", index |-> k]
OneHot(L) == [p \in 1..10 |-> IF p = L + 1 THEN 1 ELSE -1]
Digit(b) == b \in 0..9

ValidationExits == {"exit_count", "exit_dims"}

\* C1: when the item counts differ, or the height or width is not 28, the run
\* aborts with a non-zero exit status before any output is written: at the abort
\* the destination directory has not been created, no bitmap has been written,
\* and the manifest is as it was before the run (neither created nor truncated).
C1_AbortBeforeAnyOutput ==
    /\ (pc \in Terminal /\ (~HeadersMatch \/ ~DimsOk))
          => (pc \in ValidationExits /\ exitCode # 0)
    /\ pc \in ValidationExits
          => /\ dirExists = before.dirExists
             /\ written = <<>>
             /\ bmps = before.bmps
             /\ config = before.config

\* The part of C1 the code does keep: a validation abort happens with exit
\* status 1 and before any bitmap or manifest line is written.
C1_AbortWritesNoRecord ==
    /\ (pc \in Terminal /\ (~HeadersMatch \/ ~DimsOk))
          => (pc \in ValidationExits /\ exitCode = 1)
    /\ pc \in ValidationExits
          => (written = <<>> /\ bmps = before.bmps /\ config.lines = <<>>)

\* Both headers declare n items of 28x28, both files hold at least n records,
\* and the first n label bytes are digits.
WellFormed(n) ==
    /\ DeclaredImages = n
    /\ DeclaredLabels = n
    /\ DimsOk
    /\ Len(imageFile.records) >= n
    /\ Len(labelFile.labels) >= n
    /\ \A k \in 1..n : Digit(labelFile.labels[k])

\* C2: on well-formed inputs declaring N items, a run ends normally having saved
\* exactly the N bitmaps with indices 0..N-1, once each and in order, the k-th
\* from the k-th image record, and the manifest holds exactly N lines, the k-th
\* naming bitmap k and carrying the target vector of the k-th label byte.
C2_OneBitmapAndLinePerRecord ==
    \A n \in 0..(MaxItems + 1) :
        (WellFormed(n) /\ pc \in Terminal) =>
            /\ pc = "done"
            /\ written = [k \in 1..n |-> BmpName(k - 1)]
            /\ \A k \in 1..n :
                  /\ BmpName(k - 1) \in DOMAIN bmps
                  /\ bmps[BmpName(k - 1)] =
                        [mode |-> "RGB", size |-> <<28, 28>>,
                         pixel |-> <<imageFile.records[k], imageFile.records[k],
                                     imageFile.records[k]>>]
            /\ config.exists
            /\ Len(config.lines) = n
            /\ \A k \in 1..n :
                  config.lines[k] =
                      [path |-> <<"images/mnist", BmpName(k - 1)>>,
                       targets |-> OneHot(labelFile.labels[k])]

C2_Witness ==
    /\ pc = "done"
    /\ WellFormed(2)
    /\ imageFile.records = <<0, 255>>
    /\ labelFile.labels = <<7, 3>>
    /\ Len(config.lines) = 2
    /\ Len(written) = 2

\* C3: every manifest line a run has written carries exactly 10 target values,
\* trueVal at (zero-indexed) position L, the label byte of its record, and
\* falseVal at the nine others; with the defaults, label 3 gives
\* -1 -1 -1 1 -1 -1 -1 -1 -1 -1.  No other position is true, whatever the
\* earlier records' labels were.
C3_OneHotTargets ==
    pc \notin {"start", "idle"} =>
        \A k \in 1..Len(config.lines) :
            LET L == labelFile.labels[k]
                t == config.lines[k].targets
            IN /\ Digit(L)
               /\ DOMAIN t = 1..10
               /\ t[L + 1] = trueVal
               /\ \A p \in 1..10 : p # L + 1 => t[p] = falseVal
               /\ L = 3 => t = <<-1, -1, -1, 1, -1, -1, -1, -1, -1, -1>>

C3_Witness ==
    /\ pc = "done"
    /\ labelFile.labels = <<3, 7>>
    /\ Len(config.lines) = 2
    /\ config.lines[2].targets = <<-1, -1, -1, -1, -1, -1, -1, 1, -1, -1>>

\* C7: the item-count gate is decided before the dimension gate, and both before
\* any record is read.  When the counts differ the run ends at the item-count
\* gate with exit code 1, the dimensions never read, even if they are wrong too;
\* a run ends at the dimension gate only with matching counts; records are read
\* only when both gates passed; a run that completes the loop ends with code 0.
C7_GateOrder ==
    /\ pc \in {"start", "counts"} => (height = Unset /\ width = Unset)
    /\ (pc \notin {"start", "counts", "idle"} /\ ~HeadersMatch)
          => (pc = "exit_count" /\ exitCode = 1 /\ height = Unset /\ width = Unset)
    /\ pc = "exit_dims" => (HeadersMatch /\ ~DimsOk /\ exitCode = 1)
    /\ pc \in ValidationExits => (ipos = 0 /\ lpos = 0 /\ written = <<>>)
    /\ (ipos > 0 \/ lpos > 0 \/ written # <<>>) => (HeadersMatch /\ DimsOk)
    /\ pc = "done" => (exitCode = 0 /\ HeadersMatch /\ DimsOk)

C7_Witness ==
    /\ pc = "exit_count"
    /\ ~HeadersMatch
    /\ ~DimsOk
    /\ exitCode = 1

\* Record k (counted from 1, so i = k - 1) is the first whose label byte is no
\* digit, and the run gets to it: the headers pass both gates and declare at
\* least k items, and both files hold k records.
FirstBadLabel(k) ==
    /\ HeadersMatch
    /\ DimsOk
    /\ k <= DeclaredImages
    /\ k <= Len(imageFile.records)
    /\ k <= Len(labelFile.labels)
    /\ ~Digit(labelFile.labels[k])
    /\ \A m \in 1..(k - 1) : Digit(labelFile.labels[m])

\* C8: if the label byte of record i is outside 0..9 and all earlier ones are
\* digits, the run aborts with IndexError while handling record i and no later
\* record is touched; the manifest then holds exactly the i lines of records
\* 0..i-1, while the i+1 bitmaps 0..i have been saved and stay on disk.  And an
\* IndexError ends a run in no other way.
C8_BadLabelAborts ==
    /\ \A k \in 1..Len(labelFile.labels) :
          (FirstBadLabel(k) /\ pc \in Terminal) =>
              /\ pc = "IndexError"
              /\ indexNum = k - 1
              /\ ipos = k
              /\ lpos = k
              /\ Len(config.lines) = k - 1
              /\ \A m \in 1..(k - 1) :
                    config.lines[m].path = <<"images/mnist", BmpName(m - 1)>>
              /\ written = [m \in 1..k |-> BmpName(m - 1)]
              /\ \A m \in 1..k : BmpName(m - 1) \in DOMAIN bmps
    /\ pc = "IndexError" => \E k \in 1..Len(labelFile.labels) : FirstBadLabel(k)

C8_Witness ==
    /\ pc = "IndexError"
    /\ FirstBadLabel(2)
    /\ Len(config.lines) = 1
    /\ Len(written) = 2
    /\ DOMAIN bmps = {BmpName(0), BmpName(1)}

Distinct(q) == Cardinality({q[k] : k \in 1..Len(q)}) = Len(q)

\* C9: with N the validated item count, at every loop boundary
\* indexNum + numImages = N and bitmaps written = manifest lines = indexNum;
\* inside an iteration the bitmaps (all of different names) exceed the lines by
\* one, and never by more, also when the run aborts; numImages never goes below
\* 0; the loop ends with numImages = 0 after exactly N iterations (none, and an
\* empty manifest, when N = 0).
C9_LoopInvariant ==
    /\ pc = "loop" =>
          /\ numImages >= 0
          /\ indexNum + numImages = DeclaredImages
          /\ Len(written) = indexNum
          /\ Len(config.lines) = indexNum
    /\ pc = "label" =>
          /\ numImages > 0
          /\ indexNum + numImages = DeclaredImages
          /\ Len(written) = indexNum + 1
          /\ Len(config.lines) = indexNum
    /\ pc \in {"loop", "label"} \cup Terminal =>
          /\ (Len(written) - Len(config.lines)) \in {0, 1}
          /\ Distinct(written)
    /\ pc = "done" =>
          /\ numImages = 0
          /\ indexNum = DeclaredImages
          /\ Len(written) = DeclaredImages
          /\ Len(config.lines) = DeclaredImages

C9_Witness ==
    /\ pc = "label"
    /\ indexNum = 1
    /\ numImages = 1
    /\ Len(written) = 2
    /\ Len(config.lines) = 1

\* C10: when a complete run is followed by another run on the same inputs, the
\* second run leaves the same bitmap files and the same manifest as the first:
\* N lines, not 2N, the manifest having been overwritten.
C10_SecondRunSameOutputs ==
    (run >= 2 /\ before.pc = "done" /\ pc \in Terminal) =>
        /\ pc = "done"
        /\ bmps = before.bmps
        /\ config = before.config
        /\ Len(config.lines) = DeclaredImages

C10_Witness ==
    /\ run = 2
    /\ before.pc = "done"
    /\ pc = "done"
    /\ Len(config.lines) = 2
    /\ Len(before.config.lines) = 2

---------------------------------------------------------------------------
\* Properties of the generator (checked under SpecGen).

\* The argument was parsed (or defaulted): samples holds the row count.
Parsed == gpc \in {"loop", "exit0", "ZeroDivisionError"}

\* The line printed for row r marks exactly grid position (b, b).
MarksOnly(line, b) ==
    /\ DOMAIN line.grid = 1..100
    /\ \A t \in 1..100 : line.grid[t] = (IF t = 10 * b + b + 1 THEN 1 ELSE -1)

\* The line printed for row r marks nothing.
MarksNothing(line) ==
    /\ DOMAIN line.grid = 1..100
    /\ \A t \in 1..100 : line.grid[t] = -1

\* C4: for samples > 0 divisible by 10 the generator ends normally having printed
\* exactly samples lines, for rows 0..samples-1 in increasing order, each with
\* one 1 and 99 values -1, the 1 at (bucket, bucket), bucket = i // (samples //
\* 10), which is in 0..9.
C4_DivisibleSamples ==
    (Parsed /\ samples > 0 /\ samples % 10 = 0) =>
        /\ gpc \in GenTerminal => (gpc = "exit0" /\ Len(out) = samples)
        /\ Len(out) = i
        /\ i <= samples
        /\ \A r \in 1..Len(out) :
              LET b == (r - 1) \div (samples \div 10)
              IN /\ out[r].label = r - 1
                 /\ b \in 0..9
                 /\ MarksOnly(out[r], b)

C4_Witness ==
    /\ gpc = "exit0"
    /\ samples = 20
    /\ Len(out) = 20
    /\ out[20].grid[100] = 1

\* C5: given any positive integer samples (1..9 and non-multiples of 10
\* included) the generator prints exactly samples lines and ends without error;
\* the only error is a non-integer argument.
C5_AnyPositiveSamples ==
    /\ gpc \in {"ValueError", "ZeroDivisionError"} => (Len(argv) > 0 /\ ~argv[1].isInt)
    /\ (gpc \in GenTerminal /\ Parsed /\ samples > 0) =>
          (gpc = "exit0" /\ Len(out) = samples)

\* C6: for samples not divisible by 10, every trailing row i >= 10 * (samples //
\* 10) is printed with all 100 values -1, and every earlier row is printed with
\* exactly one 1, at (bucket, bucket).
C6_TrailingRows ==
    (gpc \in GenTerminal /\ Parsed /\ samples % 10 # 0) =>
        \A row \in 0..(samples - 1) :
            /\ Len(out) > row
            /\ LET w == samples \div 10
               IN IF row >= 10 * w
                    THEN MarksNothing(out[row + 1])
                    ELSE \E b \in 0..9 :
                            /\ b * w <= row
                            /\ row < (b + 1) * w
                            /\ MarksOnly(out[row + 1], b)

\* What the code does for samples not divisible by 10: from 10 up the rows are
\* as C6 says; below 10 the first row's division by samples/10 = 0 ends the run
\* with nothing printed.
C6_FromTenUp ==
    (gpc \in GenTerminal /\ Parsed /\ samples % 10 # 0) =>
        IF samples >= 10
          THEN /\ gpc = "exit0"
               /\ Len(out) = samples
               /\ \A row \in 0..(samples - 1) :
                     LET w == samples \div 10
                     IN IF row >= 10 * w
                          THEN MarksNothing(out[row + 1])
                          ELSE MarksOnly(out[row + 1], row \div w)
          ELSE IF samples > 0
                 THEN gpc = "ZeroDivisionError" /\ out = <<>>
                 ELSE gpc = "exit0" /\ out = <<>>


=============================================================================
